---- MODULE Spec2Model ----
(***************************************************************************)
(* Phylogenetic tree engine of the Eudicots toolkit.                       *)
(*                                                                         *)
(*   06.prune_tree_nodes.py : remove named nodes from a tree, reconnecting *)
(*                            the sole sibling, then write format 5.       *)
(*   02.wgd_tree_stat.py    : per-file WGD classification of gene trees by *)
(*                            monophyly of the two species' copies.        *)
(*   04.wgt_tree_stat.py    : per-file WGT classification, NonShared or    *)
(*                            Shared.                                      *)
(*   04.filter_trees_by_support.py : keep the lines whose internal support *)
(*                            values and branch lengths reach thresholds.  *)
(*   05.filter-species.py   : keep the trees with enough leaves.           *)
(*   05.filter-orders.py    : keep the trees that cover enough groups.     *)
(*                                                                         *)
(* A tree is an arena: nodes are 1..n, None is 0.  The fields of a node    *)
(* are those of an ete3 TreeNode: up, children (ordered), dist, name.      *)
(* Branch lengths are held in tenths (dist 3 is the branch length 0.3).    *)
(* Each script has its own specification; the variables of the scripts     *)
(* that are not run keep their idle value.                                 *)
(* 06.prune_tree_nodes.py ships with a placeholder for nodes_to_remove     *)
(* that is not Python: as shipped it stops with SyntaxError, and it prunes *)
(* once the line is edited to a set of names, as its Usage section asks.   *)
(***************************************************************************)
EXTENDS Integers, Sequences, FiniteSets, TLC

VARIABLES
    name,       \* prune: node -> name (fixed by the parse)
    tree,       \* prune: [up, children, dist] of every node object
    t,          \* prune: the variable t, the node held as the tree
    order,      \* prune: iteration order of the set nodes_to_remove
    ni,         \* prune: number of names whose search has been started
    nodes,      \* prune: the rest of the list search_nodes returned
    pc,         \* prune: "names", "nodes", "done"
    out,        \* prune: the text appended to cleaned_trees
    tree0,      \* prune: the tree as parsed (history)
    prev,       \* prune: tree and t before the last node was processed
    last,       \* prune: the last node processed (0: none yet)
    wpc,        \* wgd: "file", "tree", "classify"
    cur,        \* wgd: the parsed tree being classified
    total, independent, shared, uncertain,   \* wgd: counters of the file
    event,      \* wgd: what happened to the last tree statement
    row,        \* wgd: the row written for the file just closed
    wgt,        \* 04.wgt_tree_stat.py: pc, cur, counters, event, row
    sf,         \* 04.filter_trees_by_support.py: pc, thresholds, line, counters
    lf,         \* 05.filter-species.py: pc, threshold, newick, filtered_trees
    gf,         \* 05.filter-orders.py: pc, groups, required count, tree, verdict
    pf,         \* prune, whole file: pc, lines, position, cleaned_trees, output
    sp,         \* tree statement splitting: pc, nwk, trees
    ff,         \* a line filter on a whole file: pc, lines, position, output
    cd          \* Newick codec: pc, text, parsed tree, written text

pvars == <<name, tree, t, order, ni, nodes, pc, out, tree0, prev, last>>
wvars == <<wpc, cur, total, independent, shared, uncertain, event, row>>
xvars == <<wgt, sf, lf, gf, pf, sp, ff, cd>>
vars  == <<pvars, wvars, xvars>>

None == 0

(***************************************************************************)
(* Bounds of the model.                                                    *)
(***************************************************************************)
MaxNodes == 6       \* nodes of a tree given to the prune tool
MaxNamed == 2       \* nodes of that tree that carry a name of TargetNames
MaxLeaves == 4      \* leaves of a tree given to the WGD classifier
MaxTotal == 2       \* trees counted in one file by the WGD classifier

Max(a, b) == IF a > b THEN a ELSE b
Range(s) == {s[i] : i \in 1..Len(s)}

(***************************************************************************)
(* Input trees.  A shape is the parent vector of a tree whose nodes are    *)
(* numbered in level order: p[1] = None, p[i] < i, p non-decreasing.       *)
(* Every rooted ordered tree has exactly one such numbering.               *)
(***************************************************************************)
RECURSIVE ShapesOf(_)
ShapesOf(n) ==
    IF n = 1 THEN {<<None>>}
    ELSE UNION {{Append(p, q) : q \in Max(1, p[n - 1])..(n - 1)} : p \in ShapesOf(n - 1)}

ChildrenOf(p, i) == SelectSeq([k \in 1..Len(p) |-> k], LAMBDA k : p[k] = i)

\* The node objects of a parsed tree.  ete3 gives the root dist 0.0 when the
\* text carries none.
ParsedTree(p, d) ==
    [up       |-> [i \in 1..Len(p) |-> p[i]],
     children |-> [i \in 1..Len(p) |-> ChildrenOf(p, i)],
     dist     |-> [i \in 1..Len(p) |-> IF i = 1 THEN 0 ELSE d[i]]]

\* The names an edit of nodes_to_remove lists, as the Usage section asks
\* before the script is run; A and B are leaf names of the docstring example.
TargetNames == {"A", "B"}
Label(i) == "n" \o ToString(i)

\* Branch lengths of the input, in tenths: all different.
InputDists(n) == [i \in 1..n |-> i]

NamedSets(n) == {S \in SUBSET (1..n) : Cardinality(S) <= MaxNamed}

Namings(n) ==
    UNION {{[i \in 1..n |-> IF i \in S THEN f[i] ELSE Label(i)] : f \in [S -> TargetNames]}
           : S \in NamedSets(n)}

\* The iteration orders a set of names drawn from TargetNames can have.
NameOrders ==
    {<<>>} \cup {<<a>> : a \in TargetNames}
           \cup UNION {{<<a, b>> : b \in TargetNames \ {a}} : a \in TargetNames}

\* The tree of the docstring example,
\* ((A:0.1,B:0.2)node1:0.3,(C:0.4,D:0.5)node2:0.6)root;
ExampleShape == <<None, 1, 1, 2, 2, 3, 3>>
ExampleNames == <<"root", "node1", "node2", "A", "B", "C", "D">>
ExampleDists == <<0, 3, 6, 1, 2, 4, 5>>

(***************************************************************************)
(* ete3 TreeNode operations, on the record T = [up, children, dist].       *)
(***************************************************************************)
\* list.remove(x): drops the first occurrence.
ListRemove(s, x) ==
    IF \E i \in 1..Len(s) : s[i] = x
    THEN LET i == CHOOSE i \in 1..Len(s) : s[i] = x /\ \A j \in 1..(i - 1) : s[j] /= x
         IN  SubSeq(s, 1, i - 1) \o SubSeq(s, i + 1, Len(s))
    ELSE s

\* the node keeps its place in the list of its parent
DetachUpOnly(T, n) == [T EXCEPT !.up[n] = None]

\* node.detach()
Detach(T, n) ==
    IF T.up[n] /= None
    THEN [T EXCEPT !.children[T.up[n]] = ListRemove(@, n), !.up[n] = None]
    ELSE T

\* parent.add_child(child): appended last, up set; dist kept.
AddChild(T, p, c) ==
    [T EXCEPT !.children[p] = Append(@, c), !.up[c] = p]

\* parent.add_child(child, dist=d)
AddChildDist(T, p, c, d) ==
    [AddChild(T, p, c) EXCEPT !.dist[c] = d]

\* parent.remove_child(child)
RemoveChild(T, p, c) ==
    [T EXCEPT !.children[p] = ListRemove(@, c), !.up[c] = None]

RECURSIVE AddChildren(_, _, _)
AddChildren(T, p, cs) ==
    IF cs = <<>> THEN T
    ELSE AddChildren(AddChild(T, p, Head(cs)), p, Tail(cs))

\* node.delete(prevent_nondicotomic, preserve_branch_length=False): the
\* children of the node go to its parent, the node leaves the parent; a
\* parent left with fewer than two children is deleted the same way, once.
RECURSIVE Delete(_, _, _)
Delete(T, n, prevent) ==
    LET parent == T.up[n]
        T1 == IF parent /= None
              THEN RemoveChild(AddChildren(T, parent, T.children[n]), parent, n)
              ELSE T
    IN  IF prevent /\ parent /= None /\ Len(T1.children[parent]) < 2
        THEN Delete(T1, parent, FALSE)
        ELSE T1

\* node.get_sisters()
GetSisters(T, n) ==
    IF T.up[n] /= None
    THEN SelectSeq(T.children[T.up[n]], LAMBDA c : c /= n)
    ELSE <<>>

\* root.traverse("levelorder")
RECURSIVE LevelOrder(_, _)
LevelOrder(T, queue) ==
    IF queue = <<>> THEN <<>>
    ELSE <<Head(queue)>> \o LevelOrder(T, Tail(queue) \o T.children[Head(queue)])

\* a search whose name condition is not applied
SearchNodesAny(T, nm, root, wanted) == LevelOrder(T, <<root>>)

\* a search that stops at the first node found
SearchNodesFirst(T, nm, root, wanted) ==
    LET found == SelectSeq(LevelOrder(T, <<root>>), LAMBDA n : nm[n] = wanted)
    IN  IF found = <<>> THEN <<>> ELSE <<Head(found)>>

\* root.search_nodes(name=nm)
SearchNodes(T, nm, root, wanted) ==
    SelectSeq(LevelOrder(T, <<root>>), LAMBDA n : nm[n] = wanted)

(***************************************************************************)
(* The body of "for node in nodes" (lines 79-91), on the pair R = [T, t].  *)
(***************************************************************************)
HasParent(T, n) == T.up[n] /= None

\* the branch length of the parent is not added
SumDistSiblingOnly(T, parent, sib) == T.dist[sib]

SumDist(T, parent, sib) == T.dist[parent] + T.dist[sib]

Reconnect(R, node) ==
    LET T == R.T
        parent == T.up[node]
        siblings == GetSisters(T, node)
        grandparent == T.up[parent]
    IN  IF Len(siblings) = 1
        THEN IF grandparent /= None
             THEN [T |-> AddChildDist(Detach(T, siblings[1]), grandparent, siblings[1],
                                      SumDist(T, parent, siblings[1])),
                   t |-> R.t]
             ELSE [T |-> Detach(T, siblings[1]), t |-> siblings[1]]
        ELSE R

\* a parentless node is pruned too, its first child taking its place
PruneNodeRootToo(R, node) ==
    IF HasParent(R.T, node)
    THEN LET R1 == Reconnect(R, node)
         IN  [T |-> Delete(R1.T, node, TRUE), t |-> R1.t]
    ELSE IF R.T.children[node] /= <<>>
         THEN [T |-> Detach(R.T, R.T.children[node][1]), t |-> R.T.children[node][1]]
         ELSE R

\* only a node without children is pruned
PruneNodeLeavesOnly(R, node) ==
    IF HasParent(R.T, node) /\ R.T.children[node] = <<>>
    THEN LET R1 == Reconnect(R, node)
         IN  [T |-> Delete(R1.T, node, TRUE), t |-> R1.t]
    ELSE R

PruneNode(R, node) ==
    IF HasParent(R.T, node)
    THEN LET R1 == Reconnect(R, node)
         IN  [T |-> Delete(R1.T, node, TRUE), t |-> R1.t]
    ELSE R

\* for node in nodes: the body applied to each node of the list in turn
RECURSIVE PruneNodes(_, _)
PruneNodes(R, ns) ==
    IF ns = <<>> THEN R ELSE PruneNodes(PruneNode(R, Head(ns)), Tail(ns))

\* for node_name in nodes_to_remove, the names taken in the order o
RECURSIVE PruneNames(_, _, _)
PruneNames(R, nm, o) ==
    IF o = <<>> THEN R
    ELSE PruneNames(PruneNodes(R, SearchNodes(R.T, nm, R.t, Head(o))), nm, Tail(o))

(***************************************************************************)
(* t.write(format=5, dist_formatter="%.10f").                              *)
(***************************************************************************)
\* "%.10f" of a branch length held in tenths
DistFormatter(d) == ToString(d \div 10) \o "." \o ToString(d % 10) \o "000000000"

\* write() puts "_" for every character of a name that Newick reserves
\* (one of : ; ( ) , [ ] = and tab, newline, return); of the names of the
\* model, a=b is the one that holds such a character
Sanitized(s) == IF s = "a=b" THEN "a_b" ELSE s

\* format 5 writes the name of a leaf, NoName for an empty one
LeafName(nm, n) == IF Sanitized(nm[n]) = "" THEN "NoName" ELSE Sanitized(nm[n])

RECURSIVE WriteNode(_, _, _)
RECURSIVE WriteChildren(_, _, _, _)
WriteNode(T, nm, n) ==
    IF T.children[n] = <<>>
    THEN LeafName(nm, n) \o ":" \o DistFormatter(T.dist[n])
    ELSE "(" \o WriteChildren(T, nm, T.children[n], TRUE) \o ")"
             \o (IF T.up[n] /= None THEN ":" \o DistFormatter(T.dist[n]) ELSE "")
WriteChildren(T, nm, cs, first) ==
    IF cs = <<>> THEN ""
    ELSE (IF first THEN "" ELSE ",") \o WriteNode(T, nm, Head(cs))
         \o WriteChildren(T, nm, Tail(cs), FALSE)

Write(T, nm, root) == WriteNode(T, nm, root) \o ";"

(***************************************************************************)
(* The prune tool: one input line, parsed, pruned name by name, written.   *)
(***************************************************************************)
\* the tools that are not run
WgtOff == wgt = [pc |-> "off"]
SfOff == sf = [pc |-> "off"]
LfOff == lf = [pc |-> "off"]
GfOff == gf = [pc |-> "off"]
PfOff == pf = [pc |-> "off"]
SpOff == sp = [pc |-> "off"]
FfOff == ff = [pc |-> "off"]
CdOff == cd = [pc |-> "off"]
OthersOff ==
    WgtOff /\ SfOff /\ LfOff /\ GfOff /\ PfOff /\ SpOff /\ FfOff /\ CdOff

WgdIdle ==
    /\ wpc = "file" /\ cur = <<>> /\ total = 0 /\ independent = 0
    /\ shared = 0 /\ uncertain = 0 /\ event = "none" /\ row = <<>>

\* t = Tree(tree_str, format=1), with nodes_to_remove in the order o
Parsed(p, nm, d, o) ==
    /\ name = nm
    /\ tree = ParsedTree(p, d)
    /\ t = 1
    /\ order = o
    /\ ni = 0
    /\ nodes = <<>>
    /\ pc = "names"
    /\ out = ""
    /\ tree0 = tree
    /\ prev = [T |-> tree, t |-> t]
    /\ last = None

\* nodes_to_remove = {"Node1","Node2","Node4".....}: the line as shipped is
\* not Python, python3 raises SyntaxError when it compiles the script and no
\* statement of it runs: no tree is parsed and nothing is written
SyntaxError ==
    /\ name = <<>> /\ tree = <<>> /\ t = None /\ order = <<>> /\ ni = 0
    /\ nodes = <<>> /\ pc = "SyntaxError" /\ out = "" /\ tree0 = <<>>
    /\ prev = <<>> /\ last = None

\* the script as shipped, or the script with nodes_to_remove edited to a set
\* of names: a tree of the file is parsed
InitPrune ==
    \/ SyntaxError
    \/ \E n \in 1..MaxNodes : \E p \in ShapesOf(n) : \E nm \in Namings(n) :
           \E o \in NameOrders : Parsed(p, nm, InputDists(n), o)
    \/ Parsed(ExampleShape, ExampleNames, ExampleDists, <<"B">>)

\* for node_name in nodes_to_remove: nodes = t.search_nodes(name=node_name)
SearchName ==
    /\ pc = "names" /\ ni < Len(order)
    /\ LET found == SearchNodes(tree, name, t, order[ni + 1])
       IN  /\ nodes' = found
           /\ pc' = IF found = <<>> THEN "names" ELSE "nodes"
    /\ ni' = ni + 1
    /\ UNCHANGED <<name, tree, t, order, out, tree0, prev, last>>

\* for node in nodes: ... node.delete()
ProcessNode ==
    /\ pc = "nodes" /\ nodes /= <<>>
    /\ LET R == PruneNode([T |-> tree, t |-> t], Head(nodes))
       IN  /\ tree' = R.T
           /\ t' = R.t
    /\ prev' = [T |-> tree, t |-> t]
    /\ last' = Head(nodes)
    /\ nodes' = Tail(nodes)
    /\ pc' = IF Tail(nodes) = <<>> THEN "names" ELSE "nodes"
    /\ UNCHANGED <<name, order, ni, out, tree0>>

\* cleaned_trees.append(t.write(format=5, dist_formatter="%.10f"))
WriteTree ==
    /\ pc = "names" /\ ni = Len(order)
    /\ out' = Write(tree, name, t)
    /\ pc' = "done"
    /\ UNCHANGED <<name, tree, t, order, ni, nodes, tree0, prev, last>>

NextPrune ==
    \/ SearchName /\ UNCHANGED <<wvars, xvars>>
    \/ ProcessNode /\ UNCHANGED <<wvars, xvars>>
    \/ WriteTree /\ UNCHANGED <<wvars, xvars>>

Init == InitPrune /\ WgdIdle /\ OthersOff

Spec == Init /\ [][NextPrune]_vars

(***************************************************************************)
(* The prune of one tree taken as one step: lines 76-94, the loop over     *)
(* nodes_to_remove with the loop over the nodes found, then the write.     *)
(***************************************************************************)
PruneTree ==
    /\ pc = "names" /\ ni = 0
    /\ \E R \in {PruneNames([T |-> tree, t |-> t], name, order)} :
           /\ tree' = R.T
           /\ t' = R.t
           /\ out' = Write(R.T, name, R.t)
    /\ ni' = Len(order)
    /\ pc' = "done"
    /\ UNCHANGED <<name, order, nodes, tree0, prev, last>>

NextPruneTree == PruneTree /\ UNCHANGED <<wvars, xvars>>

SpecPruneTree == Init /\ [][NextPruneTree]_vars

(***************************************************************************)
(* The WGD classifier: for each file, each tree statement is parsed and    *)
(* classified by the monophyly of the copies of species A and species B.   *)
(***************************************************************************)
A == {"1", "2"}
B == {"3", "4"}

\* Trees given to the classifier: every node has no child or at least two;
\* a leaf carries a copy name, which no other leaf carries, or is a gene of
\* another species ("x" stands for any such name).
WgdLeafNames == A \cup B \cup {"x"}
ShapeLeaves(p) == {i \in 1..Len(p) : \A k \in 1..Len(p) : p[k] /= i}
WgdShapes ==
    {p \in UNION {ShapesOf(n) : n \in 1..(2 * MaxLeaves - 1)} :
        /\ Cardinality(ShapeLeaves(p)) <= MaxLeaves
        /\ \A i \in 1..Len(p) : Cardinality({k \in 1..Len(p) : p[k] = i}) /= 1}
LeafNamings(p) ==
    LET L == ShapeLeaves(p)
    IN  {f \in [L -> WgdLeafNames] : \A i, j \in L : (i /= j /\ f[i] = f[j]) => f[i] = "x"}
WgdTree(p, f) ==
    [T |-> ParsedTree(p, [i \in 1..Len(p) |-> 10]),
     name |-> [i \in 1..Len(p) |-> IF i \in DOMAIN f THEN f[i] ELSE ""]]

\* t.iter_leaves()
IterLeaves(T, r) == {n \in Range(LevelOrder(T, <<r>>)) : T.children[n] = <<>>}

\* the nodes from n up to the root
RECURSIVE PathToRoot(_, _)
PathToRoot(T, n) ==
    IF T.up[n] = None THEN <<n>> ELSE <<n>> \o PathToRoot(T, T.up[n])

\* root.get_common_ancestor(targets): a single target is paired with the
\* root; otherwise the first node on the path of one target that lies on the
\* path of every other target.
GetCommonAncestor(T, r, targets) ==
    IF Cardinality(targets) = 1
    THEN r
    ELSE LET ref == CHOOSE n \in targets : TRUE
             reference == PathToRoot(T, ref)
             ok(i) == \A m \in targets : reference[i] \in Range(PathToRoot(T, m))
             first == CHOOSE i \in 1..Len(reference) :
                          ok(i) /\ \A j \in 1..(i - 1) : ~ok(j)
         IN  reference[first]

\* t.check_monophyly(values, target_attr="name"): raises ValueError when a
\* value is carried by no leaf and TreeError when there is no target, else [0]
\* is whether no foreign leaf lies below the common ancestor of the targets.
CheckMonophyly(T, nm, r, values) ==
    LET targets == {leaf \in IterLeaves(T, r) : nm[leaf] \in values}
    IN  IF values \ {nm[leaf] : leaf \in targets} /= {} \/ targets = {}
        THEN [raises |-> TRUE, mono |-> FALSE]
        ELSE LET common == GetCommonAncestor(T, r, targets)
                 foreign == {leaf \in IterLeaves(T, common) : nm[leaf] \notin values}
             IN  [raises |-> FALSE, mono |-> foreign = {}]

LeafNameSet(T, nm, r) == {nm[l] : l \in IterLeaves(T, r)}

\* "and" in place of "or"
IncompleteBoth(aHere, bHere) == Cardinality(aHere) < 2 /\ Cardinality(bHere) < 2

\* if len(a_here) < 2 or len(b_here) < 2: continue
Incomplete(aHere, bHere) == Cardinality(aHere) < 2 \/ Cardinality(bHere) < 2

\* "or" in place of "and" in the elif
CategoryElifOr(monoA, monoB) ==
    IF monoA /\ monoB THEN "Independent"
    ELSE IF ~monoA \/ ~monoB THEN "Shared"
    ELSE "Uncertain"

\* the if / elif / else over monoA and monoB
Category(monoA, monoB) ==
    IF monoA /\ monoB THEN "Independent"
    ELSE IF ~monoA /\ ~monoB THEN "Shared"
    ELSE "Uncertain"

\* the float k / n has 53 significant bits; for 0 < k it is the quotient
\* k * 2^e / n rounded to an integer, where e = BinaryShift(k, n) + 52
RECURSIVE BinaryShift(_, _)
BinaryShift(k, n) == IF k >= n THEN 0 ELSE 1 + BinaryShift(2 * k, n)

\* (r * 2^e) % n: what the division k * 2^e / n leaves over
RECURSIVE DoubledMod(_, _, _)
DoubledMod(r, e, n) == IF e = 0 THEN r % n ELSE DoubledMod((2 * r) % n, e - 1, n)

\* f"{k / n:.4f}", in ten-thousandths: the float k / n rounded to four
\* decimals.  When k / n lies half way between two of them, the float decides:
\* it is k / n itself (nothing left over) and the even one is taken, or it is
\* below or above k / n and the nearer one is taken.
Ratio4(k, n) ==
    LET lo == (10000 * k) \div n
        left == DoubledMod(k % n, BinaryShift(k, n) + 52, n)
    IN  IF (20000 * k) % (2 * n) /= n THEN (20000 * k + n) \div (2 * n)
        ELSE IF left = 0 THEN (IF lo % 2 = 0 THEN lo ELSE lo + 1)
        ELSE IF 2 * left < n THEN lo ELSE lo + 1

PruneIdle ==
    /\ name = <<>> /\ tree = <<>> /\ t = None /\ order = <<>> /\ ni = 0
    /\ nodes = <<>> /\ pc = "off" /\ out = "" /\ tree0 = <<>> /\ prev = <<>>
    /\ last = None

\* the counters of the file before are kept
OpenFileKeepCounters ==
    /\ wpc = "file"
    /\ wpc' = "tree"
    /\ event' = "open"
    /\ row' = <<>>
    /\ UNCHANGED <<cur, total, independent, shared, uncertain>>

\* for nwk_file in glob.glob("*.nwk"): total = independent = shared = uncertain = 0
OpenFile ==
    /\ wpc = "file"
    /\ wpc' = "tree"
    /\ total' = 0 /\ independent' = 0 /\ shared' = 0 /\ uncertain' = 0
    /\ event' = "open"
    /\ row' = <<>>
    /\ UNCHANGED cur

\* t = Tree(t_str, format=1) returns a tree
ParseTree ==
    /\ wpc = "tree" /\ total < MaxTotal
    /\ \E p \in WgdShapes : \E f \in LeafNamings(p) : cur' = WgdTree(p, f)
    /\ wpc' = "classify"
    /\ event' = "parsed"
    /\ UNCHANGED <<total, independent, shared, uncertain, row>>

\* t = Tree(t_str, format=1) raises: except: continue
ParseFail ==
    /\ wpc = "tree"
    /\ event' = "unparsed"
    /\ UNCHANGED <<wpc, cur, total, independent, shared, uncertain, row>>

\* lines 88-113 for the tree just parsed
Classify ==
    /\ wpc = "classify"
    /\ LET leaves == LeafNameSet(cur.T, cur.name, 1)
           aHere == A \cap leaves
           bHere == B \cap leaves
           monoA == CheckMonophyly(cur.T, cur.name, 1, aHere)
           monoB == CheckMonophyly(cur.T, cur.name, 1, bHere)
       IN  IF Incomplete(aHere, bHere)
           THEN /\ event' = "skipped"
                /\ UNCHANGED <<total, independent, shared, uncertain>>
           ELSE /\ total' = total + 1
                /\ IF monoA.raises \/ monoB.raises
                   THEN /\ event' = "raised"
                        /\ UNCHANGED <<independent, shared, uncertain>>
                   ELSE LET c == Category(monoA.mono, monoB.mono) IN
                        /\ event' = c
                        /\ independent' = independent + (IF c = "Independent" THEN 1 ELSE 0)
                        /\ shared' = shared + (IF c = "Shared" THEN 1 ELSE 0)
                        /\ uncertain' = uncertain + (IF c = "Uncertain" THEN 1 ELSE 0)
    /\ wpc' = "tree"
    /\ cur' = <<>>
    /\ UNCHANGED row

\* if total > 0: out.write(row of the file)
CloseFile ==
    /\ wpc = "tree"
    /\ row' = IF total > 0
              THEN [total |-> total, independent |-> independent, shared |-> shared,
                    uncertain |-> uncertain, ind_ratio |-> Ratio4(independent, total),
                    shared_ratio |-> Ratio4(shared, total)]
              ELSE row
    /\ wpc' = "file"
    /\ event' = "closed"
    /\ UNCHANGED <<cur, total, independent, shared, uncertain>>

NextWGD ==
    \/ OpenFile /\ UNCHANGED <<pvars, xvars>>
    \/ ParseTree /\ UNCHANGED <<pvars, xvars>>
    \/ ParseFail /\ UNCHANGED <<pvars, xvars>>
    \/ Classify /\ UNCHANGED <<pvars, xvars>>
    \/ CloseFile /\ UNCHANGED <<pvars, xvars>>

InitWGD == PruneIdle /\ WgdIdle /\ OthersOff

SpecWGD == InitWGD /\ [][NextWGD]_vars

(***************************************************************************)
(* The WGT classifier (04.wgt_tree_stat.py): every tree statement that     *)
(* parses is counted and classified NonShared or Shared.                   *)
(***************************************************************************)
WgtA == {"1", "2", "3"}
WgtB == {"4", "5", "6"}
WgtASeq == <<"1", "2", "3">>
WgtBSeq == <<"4", "5", "6">>

\* number of leaves below node i of the shape p
RECURSIVE ShapeSize(_, _)
RECURSIVE SumSizes(_, _)
ShapeSize(p, i) ==
    LET cs == ChildrenOf(p, i)
    IN  IF cs = <<>> THEN 1 ELSE SumSizes(p, cs)
SumSizes(p, cs) ==
    IF cs = <<>> THEN 0 ELSE ShapeSize(p, Head(cs)) + SumSizes(p, Tail(cs))

\* Trees given to the WGT classifier.  Neither the order of the children of a
\* node nor which copy of a species carries which of its names matters to the
\* classifier, so the children of a node are taken larger subtree first and
\* the names of a species in the order of their first leaf.  A name may be on
\* several leaves.
WgtShapes ==
    {p \in WgdShapes :
        \A i \in 2..(Len(p) - 1) :
            p[i] = p[i + 1] => ShapeSize(p, i) >= ShapeSize(p, i + 1)}
InOrderOfFirstLeaf(f, L, seq) ==
    \A i \in L : \A k \in 2..Len(seq) :
        f[i] = seq[k] => \E j \in L : j < i /\ f[j] = seq[k - 1]
WgtLeafNamings(p) ==
    LET L == ShapeLeaves(p)
    IN  {f \in [L -> WgtA \cup WgtB \cup {"x"}] :
            InOrderOfFirstLeaf(f, L, WgtASeq) /\ InOrderOfFirstLeaf(f, L, WgtBSeq)}

\* monoA with "and" in place of "or" in the classification
WgtCategoryAnd(monoA, monoB) == IF monoA /\ monoB THEN "NonShared" ELSE "Shared"

\* if monoA or monoB: support_non_shared += 1 else: support_shared += 1
WgtCategory(monoA, monoB) == IF monoA \/ monoB THEN "NonShared" ELSE "Shared"

\* t.check_monophyly(values=here, target_attr="name")[0] if len(here) > 1 else True
WgtMono(T, nm, r, here) ==
    IF Cardinality(here) > 1
    THEN CheckMonophyly(T, nm, r, here)
    ELSE [raises |-> FALSE, mono |-> TRUE]

WgtStart ==
    wgt = [pc |-> "file", cur |-> <<>>, total |-> 0, support_shared |-> 0,
           support_non_shared |-> 0, event |-> "none", row |-> <<>>]

\* for nwk_file in glob.glob("*.nwk"): total = 0; support_shared = 0; ...
WgtOpenFile ==
    /\ wgt.pc = "file"
    /\ wgt' = [wgt EXCEPT !.pc = "tree", !.total = 0, !.support_shared = 0,
                          !.support_non_shared = 0, !.event = "open", !.row = <<>>]

\* t = Tree(t_str, format=1) returns a tree
WgtParseTree ==
    /\ wgt.pc = "tree" /\ wgt.total < MaxTotal
    /\ \E p \in WgtShapes : \E f \in WgtLeafNamings(p) :
           wgt' = [wgt EXCEPT !.pc = "classify", !.cur = WgdTree(p, f),
                              !.event = "parsed"]

\* the statement counted before it is parsed
WgtParseFailCounted ==
    /\ wgt.pc = "tree"
    /\ wgt' = [wgt EXCEPT !.event = "unparsed", !.total = @ + 1]

\* t = Tree(t_str, format=1) raises: except: continue
WgtParseFail ==
    /\ wgt.pc = "tree"
    /\ wgt' = [wgt EXCEPT !.event = "unparsed"]

\* lines 82-100 for the tree just parsed; an exception of check_monophyly is
\* not caught and ends the script
WgtClassify ==
    /\ wgt.pc = "classify"
    /\ LET leaves == LeafNameSet(wgt.cur.T, wgt.cur.name, 1)
           aHere == WgtA \cap leaves
           bHere == WgtB \cap leaves
           monoA == WgtMono(wgt.cur.T, wgt.cur.name, 1, aHere)
           monoB == WgtMono(wgt.cur.T, wgt.cur.name, 1, bHere)
           c == WgtCategory(monoA.mono, monoB.mono)
       IN  IF monoA.raises \/ monoB.raises
           THEN wgt' = [wgt EXCEPT !.pc = "aborted", !.total = @ + 1,
                                   !.cur = <<>>, !.event = "raised"]
           ELSE wgt' = [wgt EXCEPT
                    !.pc = "tree", !.cur = <<>>, !.event = c,
                    !.total = @ + 1,
                    !.support_non_shared = @ + (IF c = "NonShared" THEN 1 ELSE 0),
                    !.support_shared = @ + (IF c = "Shared" THEN 1 ELSE 0)]

\* ratios (0 when total is 0) and the row of the file, always written
WgtCloseFile ==
    /\ wgt.pc = "tree"
    /\ wgt' = [wgt EXCEPT
           !.pc = "file", !.event = "closed",
           !.row = [total |-> wgt.total,
                    support_non_shared |-> wgt.support_non_shared,
                    ratio_non_shared |-> IF wgt.total > 0
                        THEN Ratio4(wgt.support_non_shared, wgt.total) ELSE 0,
                    support_shared |-> wgt.support_shared,
                    ratio_shared |-> IF wgt.total > 0
                        THEN Ratio4(wgt.support_shared, wgt.total) ELSE 0]]

WgtRest == <<pvars, wvars, sf, lf, gf, pf, sp, ff, cd>>

NextWGT ==
    \/ WgtOpenFile /\ UNCHANGED WgtRest
    \/ WgtParseTree /\ UNCHANGED WgtRest
    \/ WgtParseFail /\ UNCHANGED WgtRest
    \/ WgtClassify /\ UNCHANGED WgtRest
    \/ WgtCloseFile /\ UNCHANGED WgtRest

\* the WGD classifier not run
WgdOff ==
    /\ wpc = "off" /\ cur = <<>> /\ total = 0 /\ independent = 0
    /\ shared = 0 /\ uncertain = 0 /\ event = "none" /\ row = <<>>

InitWGT ==
    /\ PruneIdle /\ WgdOff /\ WgtStart
    /\ SfOff /\ LfOff /\ GfOff /\ PfOff /\ SpOff /\ FfOff /\ CdOff

SpecWGT == InitWGT /\ [][NextWGT]_vars

(***************************************************************************)
(* The support/branch filter (04.filter_trees_by_support.py).  A line is   *)
(* the sequence of its tokens, white space dropped: "(", ")", ",", ":",    *)
(* ";", a name, a number (held in hundredths), or "bad": text made of the  *)
(* characters of [\d\.eE+-] that float() rejects, such as e1.              *)
(***************************************************************************)
MaxInternal == 2     \* internal nodes of a line given to the support filter
MaxLinesRead == 2    \* non-blank lines read by a line filter

Tok(k, v) == [k |-> k, v |-> v]
Punct(k) == Tok(k, 0)
IsNumberText(tk) == tk.k \in {"num", "bad"}

SupportValues == {88, 95}
BranchValues == {0, 3}
SupportThresholds == {70, 90}
BranchThresholds == {0, 1}

\* what may follow the closing parenthesis of an internal node
LabelOptions ==
    {<<>>}
    \cup {<<Tok("num", s)>> : s \in SupportValues}
    \cup {<<Punct(":"), Tok("num", b)>> : b \in BranchValues}
    \cup {<<Tok("num", s), Punct(":"), Tok("num", b)>> :
              s \in SupportValues, b \in BranchValues}
    \cup {<<Punct("name"), Punct(":"), Tok("num", b)>> : b \in BranchValues}
    \cup {<<Punct("bad"), Punct(":"), Tok("num", b)>> : b \in BranchValues}

LeafTokens == <<Punct("name"), Punct(":"), Tok("num", 3)>>

\* the line of a tree whose internal nodes are nested: the k-th internal node
\* holds the (k-1)-th and one leaf and carries the k-th label
RECURSIVE Nest(_)
Nest(labels) ==
    IF labels = <<>>
    THEN LeafTokens
    ELSE <<Punct("(")>> \o Nest(SubSeq(labels, 1, Len(labels) - 1))
             \o <<Punct(",")>> \o LeafTokens \o <<Punct(")")>>
             \o labels[Len(labels)]
NewickLine(labels) == Nest(labels) \o <<Punct(";")>>
LabelSeqs == UNION {[1..m -> LabelOptions] : m \in 0..MaxInternal}

\* the token of the line at position i, a comma beyond its end
At(line, i) == IF i \in 1..Len(line) THEN line[i] ELSE Punct(",")

\* the positions of the line, in order
Positions(line) == [i \in 1..Len(line) |-> i]

\* float(s) for each s: raises ValueError on text that is not a number
Floats(toks) ==
    [raises |-> \E i \in 1..Len(toks) : toks[i].k = "bad",
     vals |-> [i \in 1..Len(toks) |-> toks[i].v]]

\* re.findall(r'\)\s*([\d\.eE+-]+)\s*:', newick), each as a float
ExtractSupports(line) ==
    LET ok(i) == /\ line[i].k = ")"
                 /\ IsNumberText(At(line, i + 1))
                 /\ At(line, i + 2).k = ":"
        at == SelectSeq(Positions(line), ok)
    IN  Floats([j \in 1..Len(at) |-> line[at[j] + 1]])

\* re.findall(r'\)\s*[\d\.eE+-]+\s*:\s*([\d\.eE+-]+)', newick), each as a float
ExtractBranchLengths(line) ==
    LET ok(i) == /\ line[i].k = ")"
                 /\ IsNumberText(At(line, i + 1))
                 /\ At(line, i + 2).k = ":"
                 /\ IsNumberText(At(line, i + 3))
        at == SelectSeq(Positions(line), ok)
    IN  Floats([j \in 1..Len(at) |-> line[at[j] + 3]])

\* min(xs), xs not empty
RECURSIVE Min(_)
Min(xs) ==
    IF Len(xs) = 1 THEN xs[1]
    ELSE LET m == Min(Tail(xs)) IN IF xs[1] <= m THEN xs[1] ELSE m

\* if not supports or not branches: continue
Missing(supports, branches) == supports = <<>> \/ branches = <<>>

\* ">" in place of ">="
MeetsThresholdsStrict(supports, branches, threshold_support, threshold_branch) ==
    Min(supports) > threshold_support /\ Min(branches) > threshold_branch

\* min(supports) >= args.threshold_support and min(branches) >= args.threshold_branch
MeetsThresholds(supports, branches, threshold_support, threshold_branch) ==
    Min(supports) >= threshold_support /\ Min(branches) >= threshold_branch

\* lines 90-99 for a non-blank line: "aborted" (float() raised), "discarded"
\* or "passed"
FilterLine(line, threshold_support, threshold_branch) ==
    LET supports == ExtractSupports(line)
        branches == ExtractBranchLengths(line)
    IN  IF supports.raises \/ branches.raises THEN "aborted"
        ELSE IF Missing(supports.vals, branches.vals) THEN "discarded"
        ELSE IF MeetsThresholds(supports.vals, branches.vals,
                                threshold_support, threshold_branch)
             THEN "passed"
             ELSE "discarded"

\* args = parser.parse_args(); n_total = 0; n_passed = 0
SfStart ==
    \E ts \in SupportThresholds : \E tb \in BranchThresholds :
        sf = [pc |-> "loop", threshold_support |-> ts, threshold_branch |-> tb,
              line |-> <<>>, event |-> "none", n_total |-> 0, n_passed |-> 0,
              fout |-> 0, report |-> <<>>]

\* for line in fin: a blank line
SfBlankLine ==
    /\ sf.pc = "loop"
    /\ sf' = [sf EXCEPT !.line = <<>>, !.event = "blank"]

\* for line in fin: a line that is not blank; n_total += 1
SfReadLine ==
    /\ sf.pc = "loop" /\ sf.n_total < MaxLinesRead
    /\ \E labels \in LabelSeqs :
         sf' = [sf EXCEPT !.pc = "line", !.line = NewickLine(labels),
                          !.event = "read", !.n_total = @ + 1]

\* lines 90-99 for the line just read; fout holds the number of lines written
SfFilter ==
    /\ sf.pc = "line"
    /\ LET verdict == FilterLine(sf.line, sf.threshold_support, sf.threshold_branch)
       IN  sf' = [sf EXCEPT
               !.line = <<>>, !.event = verdict,
               !.pc = IF verdict = "aborted" THEN "aborted" ELSE "loop",
               !.n_passed = @ + (IF verdict = "passed" THEN 1 ELSE 0),
               !.fout = @ + (IF verdict = "passed" THEN 1 ELSE 0)]

\* print(f"Total trees: {n_total}") ... after the last line
SfReport ==
    /\ sf.pc = "loop"
    /\ sf' = [sf EXCEPT !.pc = "done", !.event = "report",
                        !.report = [total |-> sf.n_total, passed |-> sf.n_passed]]

SfRest == <<pvars, wvars, wgt, lf, gf, pf, sp, ff, cd>>

NextSupport ==
    \/ SfBlankLine /\ UNCHANGED SfRest
    \/ SfReadLine /\ UNCHANGED SfRest
    \/ SfFilter /\ UNCHANGED SfRest
    \/ SfReport /\ UNCHANGED SfRest

InitSupport ==
    /\ PruneIdle /\ WgdOff /\ WgtOff /\ SfStart
    /\ LfOff /\ GfOff /\ PfOff /\ SpOff /\ FfOff /\ CdOff

SpecSupport == InitSupport /\ [][NextSupport]_vars

(***************************************************************************)
(* The leaf-count filter (05.filter-species.py).  A line that parses is    *)
(* held as the topology of its tree; the text of a kept line is the line.  *)
(***************************************************************************)
LfShapes == WgtShapes
LeafThresholds == 0..(MaxLeaves + 1)
Unparsable == [ok |-> FALSE, p |-> <<>>]
Parsable(p) == [ok |-> TRUE, p |-> p]

\* len(tree.get_leaf_names())
NumSpecies(p) ==
    Cardinality(IterLeaves(ParsedTree(p, [i \in 1..Len(p) |-> 10]), 1))

\* ">" in place of ">="
KeepsAbove(num_species, minimum_species_threshold) ==
    num_species > minimum_species_threshold

\* if num_species >= minimum_species_threshold
Keeps(num_species, minimum_species_threshold) ==
    num_species >= minimum_species_threshold

\* args = parser.parse_args(); trees = infile.readlines(); filtered_trees = []
LfStart ==
    \E th \in LeafThresholds :
        lf = [pc |-> "loop", threshold |-> th, newick |-> Unparsable,
              event |-> "none", nread |-> 0, filtered_trees |-> <<>>,
              outfile |-> <<>>]

\* if not newick: continue
LfBlankLine ==
    /\ lf.pc = "loop"
    /\ lf' = [lf EXCEPT !.event = "blank"]

\* tree = Tree(newick, format=1) returns a tree: lines 88-94
LfReadTree ==
    /\ lf.pc = "loop" /\ lf.nread < MaxLinesRead
    /\ \E p \in LfShapes :
         LET keep == Keeps(NumSpecies(p), lf.threshold)
         IN  lf' = [lf EXCEPT
                 !.newick = Parsable(p), !.nread = @ + 1,
                 !.event = IF keep THEN "kept" ELSE "dropped",
                 !.filtered_trees = IF keep THEN Append(@, Parsable(p)) ELSE @]

\* tree = Tree(newick, format=1) raises: the message is printed
LfParseFail ==
    /\ lf.pc = "loop" /\ lf.nread < MaxLinesRead
    /\ lf' = [lf EXCEPT !.newick = Unparsable, !.nread = @ + 1,
                        !.event = "unparsed"]

\* outfile.writelines(filtered_trees)
LfWrite ==
    /\ lf.pc = "loop"
    /\ lf' = [lf EXCEPT !.pc = "done", !.event = "written",
                        !.outfile = lf.filtered_trees]

LfRest == <<pvars, wvars, wgt, sf, gf, pf, sp, ff, cd>>

NextSpecies ==
    \/ LfBlankLine /\ UNCHANGED LfRest
    \/ LfReadTree /\ UNCHANGED LfRest
    \/ LfParseFail /\ UNCHANGED LfRest
    \/ LfWrite /\ UNCHANGED LfRest

InitSpecies ==
    /\ PruneIdle /\ WgdOff /\ WgtOff /\ SfOff /\ LfStart
    /\ GfOff /\ PfOff /\ SpOff /\ FfOff /\ CdOff

SpecSpecies == InitSpecies /\ [][NextSpecies]_vars

(***************************************************************************)
(* The group-coverage filter (05.filter-orders.py).  groups is held as the *)
(* sequence of its values (the member lists, as sets, in dict order); a    *)
(* tree is held as the set of the names of its terminals.                  *)
(***************************************************************************)
MaxGroups == 2       \* groups of the mapping given to the group filter

SpeciesIds == {"a", "b"}
TerminalNames == SpeciesIds \cup {"z"}
GroupMappings ==
    UNION {[1..m -> (SUBSET SpeciesIds) \ {{}}] : m \in 0..MaxGroups}
RequiredCounts == 0..(MaxGroups + 1)

\* the for loop of check_tree_for_groups from the i-th group on
RECURSIVE GroupsLoop(_, _, _, _, _)
GroupsLoop(terminal_names, groups, required_groups_count, i, groups_covered) ==
    IF i > Len(groups) THEN FALSE
    ELSE LET covered == groups_covered
                 + (IF groups[i] \cap terminal_names /= {} THEN 1 ELSE 0)
         IN  IF covered >= required_groups_count THEN TRUE
             ELSE GroupsLoop(terminal_names, groups, required_groups_count,
                             i + 1, covered)

\* check_tree_for_groups(tree, groups, required_groups_count)
CheckTreeForGroups(terminal_names, groups, required_groups_count) ==
    GroupsLoop(terminal_names, groups, required_groups_count, 1, 0)

\* groups = load_groups_from_csv(csv_file); required_groups = args.groups
GfStart ==
    \E g \in GroupMappings : \E r \in RequiredCounts :
        gf = [pc |-> "trees", groups |-> g, required_groups |-> r,
              terminal_names |-> {}, event |-> "none", nread |-> 0,
              valid_trees |-> 0, written |-> <<>>]

\* one tree of the list comprehension that builds valid_trees (held as the
\* number of trees kept)
GfCheckTree ==
    /\ gf.pc = "trees" /\ gf.nread < MaxLinesRead
    /\ \E names \in SUBSET TerminalNames :
         LET ok == CheckTreeForGroups(names, gf.groups, gf.required_groups)
         IN  gf' = [gf EXCEPT
                 !.terminal_names = names, !.nread = @ + 1,
                 !.event = IF ok THEN "valid" ELSE "invalid",
                 !.valid_trees = @ + (IF ok THEN 1 ELSE 0)]

\* Phylo.write(valid_trees, out_f, 'newick'); return len(valid_trees)
GfWrite ==
    /\ gf.pc = "trees"
    /\ gf' = [gf EXCEPT !.pc = "done", !.event = "written",
                        !.written = <<gf.valid_trees>>]

GfRest == <<pvars, wvars, wgt, sf, lf, pf, sp, ff, cd>>

NextGroups ==
    \/ GfCheckTree /\ UNCHANGED GfRest
    \/ GfWrite /\ UNCHANGED GfRest

InitGroups ==
    /\ PruneIdle /\ WgdOff /\ WgtOff /\ SfOff /\ LfOff /\ GfStart
    /\ PfOff /\ SpOff /\ FfOff /\ CdOff

SpecGroups == InitGroups /\ [][NextGroups]_vars

(***************************************************************************)
(* One run of one of the three scripts that parse each tree statement      *)
(* inside try/except: the WGD classifier, the WGT classifier, the          *)
(* leaf-count filter.                                                      *)
(***************************************************************************)
InitBatch ==
    /\ PruneIdle /\ SfOff /\ GfOff /\ PfOff /\ SpOff /\ FfOff /\ CdOff
    /\ \/ WgdIdle /\ WgtOff /\ LfOff
       \/ WgdOff /\ WgtStart /\ LfOff
       \/ WgdOff /\ WgtOff /\ LfStart

NextBatch ==
    \/ NextWGD
    \/ NextWGT
    \/ NextSpecies

SpecBatch == InitBatch /\ [][NextBatch]_vars

(***************************************************************************)
(* The prune tool on a whole file (06.prune_tree_nodes.py, lines 66-98):   *)
(* every line is parsed, pruned and its text appended to cleaned_trees;    *)
(* the output file is written after the last line.                         *)
(***************************************************************************)
MaxFileLines == 3    \* lines of the file given to the prune tool

\* a line Tree() rejects (a blank line inside the file is one)
BadLine == [ok |-> FALSE, p |-> <<>>, name |-> <<>>, dist |-> <<>>]
GoodLine(p, nm, d) == [ok |-> TRUE, p |-> p, name |-> nm, dist |-> d]
PfLines ==
    {BadLine,
     GoodLine(ExampleShape, ExampleNames, ExampleDists),
     GoodLine(<<None, 1, 1>>, <<"R", "B", "S">>, <<0, 2, 3>>),
     GoodLine(<<None, 1, 1>>, <<"R", "A", "C">>, <<0, 1, 2>>)}
\* nodes_to_remove edited to {"B"}, the node the docstring example removes
PfNodesToRemove == <<"B">>

\* lines 73-94 for one line that parses: the text appended to cleaned_trees
PruneLine(line) ==
    LET R == PruneNames([T |-> ParsedTree(line.p, line.dist), t |-> 1],
                        line.name, PfNodesToRemove)
    IN  Write(R.T, line.name, R.t)

\* tree_strings = f.read().strip().split("\n"); cleaned_trees = []
PfStart ==
    \E m \in 1..MaxFileLines : \E ls \in [1..m -> PfLines] :
        pf = [pc |-> "loop", tree_strings |-> ls, i |-> 0,
              cleaned_trees |-> <<>>, outfile |-> <<>>]

\* for tree_str in tree_strings: a line that parses
PfPruneLine ==
    /\ pf.pc = "loop" /\ pf.i < Len(pf.tree_strings)
    /\ pf.tree_strings[pf.i + 1].ok
    /\ pf' = [pf EXCEPT !.i = @ + 1,
                        !.cleaned_trees = Append(@, PruneLine(pf.tree_strings[pf.i + 1]))]

\* t = Tree(tree_str, format=1) raises NewickError, which nothing catches
PfParseError ==
    /\ pf.pc = "loop" /\ pf.i < Len(pf.tree_strings)
    /\ ~pf.tree_strings[pf.i + 1].ok
    /\ pf' = [pf EXCEPT !.pc = "aborted"]

\* outf.write("\n".join(cleaned_trees) + "\n")
PfWriteFile ==
    /\ pf.pc = "loop" /\ pf.i = Len(pf.tree_strings)
    /\ pf' = [pf EXCEPT !.pc = "written", !.outfile = pf.cleaned_trees]

\* nodes_to_remove = {"Node1","Node2","Node4".....}: the script as shipped
\* does not compile; the input file is not read, no output file is created
PfSyntaxError == pf = [pc |-> "SyntaxError", outfile |-> <<>>]

PfRest == <<pvars, wvars, wgt, sf, lf, gf, sp, ff, cd>>

NextPruneFile ==
    \/ PfPruneLine /\ UNCHANGED PfRest
    \/ PfParseError /\ UNCHANGED PfRest
    \/ PfWriteFile /\ UNCHANGED PfRest

InitPruneFile ==
    /\ PruneIdle /\ WgdOff /\ WgtOff /\ SfOff /\ LfOff /\ GfOff
    /\ (PfSyntaxError \/ PfStart)
    /\ SpOff /\ FfOff /\ CdOff

SpecPruneFile == InitPruneFile /\ [][NextPruneFile]_vars

(***************************************************************************)
(* Splitting the text of a file into tree statements (02.wgd_tree_stat.py  *)
(* lines 73-79, 04.wgt_tree_stat.py lines 65-71).  A text is the sequence  *)
(* of its characters.                                                      *)
(***************************************************************************)
MaxBlob == 4         \* characters of the text of a file

Chars == {"a", "b", " ", ";"}
IsSpace(c) == c = " "

\* s.lstrip() and s.rstrip()
RECURSIVE LStrip(_)
LStrip(s) == IF s /= <<>> /\ IsSpace(Head(s)) THEN LStrip(Tail(s)) ELSE s
RECURSIVE RStrip(_)
RStrip(s) ==
    IF s /= <<>> /\ IsSpace(s[Len(s)]) THEN RStrip(SubSeq(s, 1, Len(s) - 1)) ELSE s

\* s.strip()
Strip(s) == RStrip(LStrip(s))

\* s.split(";"), the part before the next ";" being acc
RECURSIVE SplitSemi(_, _)
SplitSemi(s, acc) ==
    IF s = <<>> THEN <<acc>>
    ELSE IF Head(s) = ";" THEN <<acc>> \o SplitSemi(Tail(s), <<>>)
    ELSE SplitSemi(Tail(s), Append(acc, Head(s)))

\* if not nwk.endswith(";"): nwk += ";"
EnsureTerminated(nwk) ==
    IF nwk /= <<>> /\ nwk[Len(nwk)] = ";" THEN nwk ELSE Append(nwk, ";")

\* every segment kept
KeepSegmentAll(x) == TRUE

\* if x.strip()
KeepSegment(x) == Strip(x) /= <<>>

\* [x.strip() + ";" for x in nwk.split(";") if x.strip()]
RECURSIVE Statements(_)
Statements(parts) ==
    IF parts = <<>> THEN <<>>
    ELSE (IF KeepSegment(Head(parts))
          THEN <<Append(Strip(Head(parts)), ";")>> ELSE <<>>)
             \o Statements(Tail(parts))

\* lines 74-79 for the text read from the file
SplitTrees(text) == Statements(SplitSemi(EnsureTerminated(Strip(text)), <<>>))

\* with open(nwk_file) as f: the text of the file
SpStart ==
    \E n \in 0..MaxBlob : \E text \in [1..n -> Chars] :
        sp = [pc |-> "read", text |-> text, trees |-> <<>>]

\* nwk = f.read().strip() ... trees = [...]
SpSplit ==
    /\ sp.pc = "read"
    /\ sp' = [sp EXCEPT !.pc = "split", !.trees = SplitTrees(sp.text)]

SpRest == <<pvars, wvars, wgt, sf, lf, gf, pf, ff, cd>>

NextSplit ==
    \/ SpSplit /\ UNCHANGED SpRest

InitSplit ==
    /\ PruneIdle /\ WgdOff /\ WgtOff /\ SfOff /\ LfOff /\ GfOff /\ PfOff
    /\ SpStart /\ FfOff /\ CdOff

SpecSplit == InitSplit /\ [][NextSplit]_vars

(***************************************************************************)
(* The two line filters on a whole file, the output held as the sequence   *)
(* of its lines (04.filter_trees_by_support.py lines 83-97 and             *)
(* 05.filter-species.py lines 73-101).  A line of the input is the pair of *)
(* its text without surrounding white space (body) and whether white space *)
(* surrounds it (pad).  The body of a blank line is empty.                 *)
(***************************************************************************)
RawLine(pad, body) == [pad |-> pad, body |-> body]

\* line.strip()
StripLine(raw) == [raw EXCEPT !.pad = FALSE]

SupportLabel(s) == <<Tok("num", s), Punct(":"), Tok("num", 3)>>
BadLabel == <<Punct("bad"), Punct(":"), Tok("num", 3)>>

\* lines given to the support filter: blank, without internal node, with
\* support 0.95, with support 0.88, with a label float() rejects
FfSupportBodies ==
    {<<>>, NewickLine(<<>>), NewickLine(<<SupportLabel(95)>>),
     NewickLine(<<SupportLabel(88)>>), NewickLine(<<BadLabel>>)}

\* lines given to the leaf-count filter: blank, not a tree, trees of 2, 3
\* and 4 leaves
FfSpeciesBodies ==
    {<<>>, Unparsable, Parsable(<<None, 1, 1>>), Parsable(<<None, 1, 1, 1>>),
     Parsable(<<None, 1, 1, 2, 2, 3, 3>>)}
FfSpeciesThresholds == {3, 4}

FfFiles(bodies) ==
    UNION {[1..m -> {RawLine(pad, b) : pad \in BOOLEAN, b \in bodies}]
           : m \in 1..MaxFileLines}

\* the line put in front of the output
EmitFirst(written, line) == <<line>> \o written

\* fout.write(line + "\n"); filtered_trees.append(newick + "\n")
Emit(written, line) == Append(written, line)

\* 04.filter_trees_by_support.py: args parsed, both files opened
FfSupportStart ==
    \E ts \in SupportThresholds : \E tb \in BranchThresholds :
    \E fin \in FfFiles(FfSupportBodies) :
        ff = [pc |-> "loop", tool |-> "support", threshold_support |-> ts,
              threshold_branch |-> tb, fin |-> fin, i |-> 0, n_total |-> 0,
              n_passed |-> 0, fout |-> <<>>]

\* 05.filter-species.py: args parsed, trees = infile.readlines()
FfSpeciesStart ==
    \E th \in FfSpeciesThresholds : \E trees \in FfFiles(FfSpeciesBodies) :
        ff = [pc |-> "loop", tool |-> "species", threshold |-> th,
              fin |-> trees, i |-> 0, filtered_trees |-> <<>>, outfile |-> <<>>]

\* for line in fin: lines 84-97 for the next line of the file
FfSupportLine ==
    /\ ff.pc = "loop" /\ ff.tool = "support" /\ ff.i < Len(ff.fin)
    /\ LET line == StripLine(ff.fin[ff.i + 1])
           verdict == FilterLine(line.body, ff.threshold_support, ff.threshold_branch)
       IN  IF line.body = <<>>
           THEN ff' = [ff EXCEPT !.i = @ + 1]
           ELSE IF verdict = "aborted"
           THEN ff' = [ff EXCEPT !.pc = "aborted", !.n_total = @ + 1]
           ELSE IF verdict = "passed"
           THEN ff' = [ff EXCEPT !.i = @ + 1, !.n_total = @ + 1,
                                 !.n_passed = @ + 1, !.fout = Emit(@, line)]
           ELSE ff' = [ff EXCEPT !.i = @ + 1, !.n_total = @ + 1]

\* the end of the input: both files are closed
FfSupportEnd ==
    /\ ff.pc = "loop" /\ ff.tool = "support" /\ ff.i = Len(ff.fin)
    /\ ff' = [ff EXCEPT !.pc = "done"]

\* for newick in trees: lines 82-97 for the next line of the file
FfSpeciesLine ==
    /\ ff.pc = "loop" /\ ff.tool = "species" /\ ff.i < Len(ff.fin)
    /\ LET newick == StripLine(ff.fin[ff.i + 1])
       IN  IF newick.body /= <<>> /\ newick.body.ok
              /\ Keeps(NumSpecies(newick.body.p), ff.threshold)
           THEN ff' = [ff EXCEPT !.i = @ + 1, !.filtered_trees = Emit(@, newick)]
           ELSE ff' = [ff EXCEPT !.i = @ + 1]

\* outfile.writelines(filtered_trees)
FfSpeciesWrite ==
    /\ ff.pc = "loop" /\ ff.tool = "species" /\ ff.i = Len(ff.fin)
    /\ ff' = [ff EXCEPT !.pc = "done", !.outfile = ff.filtered_trees]

FfRest == <<pvars, wvars, wgt, sf, lf, gf, pf, sp, cd>>

NextFilterFile ==
    \/ FfSupportLine /\ UNCHANGED FfRest
    \/ FfSupportEnd /\ UNCHANGED FfRest
    \/ FfSpeciesLine /\ UNCHANGED FfRest
    \/ FfSpeciesWrite /\ UNCHANGED FfRest

InitFilterFile ==
    /\ PruneIdle /\ WgdOff /\ WgtOff /\ SfOff /\ LfOff /\ GfOff /\ PfOff
    /\ SpOff /\ CdOff
    /\ (FfSupportStart \/ FfSpeciesStart)

SpecFilterFile == InitFilterFile /\ [][NextFilterFile]_vars

(***************************************************************************)
(* The Newick codec of the prune tool: Tree(tree_str, format=1) on the     *)
(* text of a statement and t.write(format=5, dist_formatter="%.10f").  A   *)
(* text is the sequence of its tokens: "(", ")", ",", ":", ";", a name     *)
(* (its value is the name) or a number (its value is in tenths).           *)
(***************************************************************************)
MaxCodecNodes == 4   \* nodes of a statement given to the codec

\* the tokens of the text t.write(format=5, dist_formatter="%.10f") returns
RECURSIVE WriteNodeTokens(_, _, _)
RECURSIVE WriteChildrenTokens(_, _, _, _)
WriteNodeTokens(T, nm, n) ==
    IF T.children[n] = <<>>
    THEN <<Tok("name", LeafName(nm, n)), Punct(":"), Tok("num", T.dist[n])>>
    ELSE <<Punct("(")>> \o WriteChildrenTokens(T, nm, T.children[n], TRUE)
             \o <<Punct(")")>>
             \o (IF T.up[n] /= None THEN <<Punct(":"), Tok("num", T.dist[n])>> ELSE <<>>)
WriteChildrenTokens(T, nm, cs, first) ==
    IF cs = <<>> THEN <<>>
    ELSE (IF first THEN <<>> ELSE <<Punct(",")>>) \o WriteNodeTokens(T, nm, Head(cs))
         \o WriteChildrenTokens(T, nm, Tail(cs), FALSE)

WriteTokens(T, nm, root) == WriteNodeTokens(T, nm, root) \o <<Punct(";")>>

\* the characters of a token, and of a text
TokenText(tk) ==
    IF tk.k = "name" THEN tk.v
    ELSE IF tk.k = "num" THEN DistFormatter(tk.v)
    ELSE tk.k
RECURSIVE TextOf(_)
TextOf(toks) == IF toks = <<>> THEN "" ELSE TokenText(Head(toks)) \o TextOf(Tail(toks))

\* a new node under parent: Tree() gives the root dist 0.0, add_child() gives
\* a child the default dist 1.0; the name is empty
NoNodes == [up |-> <<>>, children |-> <<>>, dist |-> <<>>, name |-> <<>>]
NewNode(st, parent) ==
    LET n == Len(st.up) + 1
        st1 == [up |-> Append(st.up, parent),
                children |-> Append(st.children, <<>>),
                dist |-> Append(st.dist, IF parent = None THEN 0 ELSE 10),
                name |-> Append(st.name, "")]
    IN  IF parent = None THEN st1
        ELSE [st1 EXCEPT !.children[parent] = Append(@, n)]

\* _read_node_data: the name, then the branch length after a colon, each if
\* it is there
ReadNodeData(toks, i, st, n) ==
    LET named == At(toks, i).k = "name"
        j == IF named THEN i + 1 ELSE i
        st1 == IF named THEN [st EXCEPT !.name[n] = toks[i].v] ELSE st
    IN  IF At(toks, j).k = ":" /\ At(toks, j + 1).k = "num"
        THEN [st |-> [st1 EXCEPT !.dist[n] = toks[j + 1].v], i |-> j + 2]
        ELSE [st |-> st1, i |-> j]

\* read_newick: the node that starts at token i, and the nodes below it, are
\* added to st in the order of the text
RECURSIVE ParseNode(_, _, _, _)
RECURSIVE ParseChildren(_, _, _, _)
ParseNode(toks, i, st, parent) ==
    LET n == Len(st.up) + 1
        st1 == NewNode(st, parent)
    IN  IF At(toks, i).k = "("
        THEN LET r == ParseChildren(toks, i + 1, st1, n)
             IN  ReadNodeData(toks, r.i, r.st, n)
        ELSE ReadNodeData(toks, i, st1, n)
ParseChildren(toks, i, st, parent) ==
    LET r == ParseNode(toks, i, st, parent)
    IN  IF At(toks, r.i).k = ","
        THEN ParseChildren(toks, r.i + 1, r.st, parent)
        ELSE [st |-> r.st, i |-> r.i + 1]

\* Tree(tree_str, format=1): the node objects and their names
ParseTokens(toks) == ParseNode(toks, 1, NoNodes, None).st

\* Statements given to the codec: the text of a tree of at most MaxCodecNodes
\* nodes, every leaf named, every internal node named or not, every node but
\* the root with its branch length.
CodecLeafNames == {"a", "b", "a=b"}
CodecInternalNames == {"", "n"}
CodecNamings(p) ==
    {nm \in [1..Len(p) -> CodecLeafNames \cup CodecInternalNames] :
        \A i \in 1..Len(p) :
            IF i \in ShapeLeaves(p) THEN nm[i] \in CodecLeafNames
            ELSE nm[i] \in CodecInternalNames}

RECURSIVE StatementNode(_, _, _)
RECURSIVE StatementChildren(_, _, _, _)
StatementNode(p, nm, n) ==
    LET cs == ChildrenOf(p, n)
    IN  (IF cs = <<>> THEN <<>>
         ELSE <<Punct("(")>> \o StatementChildren(p, nm, cs, TRUE) \o <<Punct(")")>>)
        \o (IF nm[n] = "" THEN <<>> ELSE <<Tok("name", nm[n])>>)
        \o (IF n = 1 THEN <<>> ELSE <<Punct(":"), Tok("num", InputDists(Len(p))[n])>>)
StatementChildren(p, nm, cs, first) ==
    IF cs = <<>> THEN <<>>
    ELSE (IF first THEN <<>> ELSE <<Punct(",")>>) \o StatementNode(p, nm, Head(cs))
         \o StatementChildren(p, nm, Tail(cs), FALSE)
Statement(p, nm) == StatementNode(p, nm, 1) \o <<Punct(";")>>

\* tree_str: one line of the input file
CdStart ==
    \E n \in 1..MaxCodecNodes : \E p \in ShapesOf(n) : \E nm \in CodecNamings(p) :
        cd = [pc |-> "text", tree_str |-> Statement(p, nm), t |-> NoNodes,
              cleaned |-> <<>>]

\* t = Tree(tree_str, format=1)
CdParse ==
    /\ cd.pc = "text"
    /\ cd' = [cd EXCEPT !.pc = "parsed", !.t = ParseTokens(cd.tree_str)]

\* cleaned_trees.append(t.write(format=5, dist_formatter="%.10f")), no node
\* being named in nodes_to_remove
CdWrite ==
    /\ cd.pc = "parsed"
    /\ cd' = [cd EXCEPT !.pc = "written",
                        !.cleaned = WriteTokens(cd.t, cd.t.name, 1)]

CdRest == <<pvars, wvars, wgt, sf, lf, gf, pf, sp, ff>>

NextCodec ==
    \/ CdParse /\ UNCHANGED CdRest
    \/ CdWrite /\ UNCHANGED CdRest

InitCodec ==
    /\ PruneIdle /\ WgdOff /\ WgtOff /\ SfOff /\ LfOff /\ GfOff /\ PfOff
    /\ SpOff /\ FfOff /\ CdStart

SpecCodec == InitCodec /\ [][NextCodec]_vars

(***************************************************************************)
(* Vocabulary of the claims about pruning.                                 *)
(***************************************************************************)
\* the nodes of the tree whose root is r
NodesOf(T, r) == Range(LevelOrder(T, <<r>>))

LeavesUnder(T, r) == {n \in NodesOf(T, r) : T.children[n] = <<>>}

RECURSIVE PathSum(_, _, _)
PathSum(T, anc, n) ==
    IF n = anc \/ T.up[n] = None THEN 0 ELSE T.dist[n] + PathSum(T, anc, T.up[n])

RECURSIVE SumOver(_, _)
SumOver(T, S) ==
    IF S = {} THEN 0
    ELSE LET n == CHOOSE x \in S : TRUE IN T.dist[n] + SumOver(T, S \ {n})

TotalBranchLength(T, r) == SumOver(T, NodesOf(T, r))

\* the links of the nodes below r are the same in T1 and T2
SameSubtree(T1, T2, r) ==
    /\ NodesOf(T1, r) = NodesOf(T2, r)
    /\ \A n \in NodesOf(T1, r) : T1.children[n] = T2.children[n]
    /\ \A n \in NodesOf(T1, r) \ {r} : T1.up[n] = T2.up[n] /\ T1.dist[n] = T2.dist[n]

\* the last node processed, as it stood before it was processed
Stepped == last /= None /\ HasParent(prev.T, last)
LastParent == prev.T.up[last]
LastSisters == GetSisters(prev.T, last)
LastGrandparent == prev.T.up[LastParent]
OneSister == Stepped /\ Len(LastSisters) = 1
WithGrandparent == OneSister /\ LastGrandparent /= None
AtRoot == OneSister /\ LastGrandparent = None
ManySisters == Stepped /\ Len(LastSisters) >= 2

\* C1: pruning a node with exactly one sibling and a grandparent re-attaches
\* the sibling to the grandparent with branch length parent + sibling, and the
\* branch-length sum from the grandparent to every leaf under the sibling is
\* the same before and after.
C1_Reattach ==
    WithGrandparent =>
        LET sib == LastSisters[1] IN
        /\ tree.up[sib] = LastGrandparent
        /\ sib \in Range(tree.children[LastGrandparent])
        /\ tree.dist[sib] = prev.T.dist[LastParent] + prev.T.dist[sib]
        /\ LeavesUnder(tree, sib) = LeavesUnder(prev.T, sib)
        /\ \A leaf \in LeavesUnder(prev.T, sib) :
               PathSum(tree, LastGrandparent, leaf) = PathSum(prev.T, LastGrandparent, leaf)

C1_Witness ==
    /\ WithGrandparent
    /\ prev.T.children[LastSisters[1]] /= <<>>
    /\ prev.T.dist[LastParent] > 0
    /\ LastGrandparent \in NodesOf(tree, t)

\* the docstring example has been pruned of {B}
ExamplePruned == name = ExampleNames /\ pc = "done"
ExampleA == CHOOSE n \in 1..Len(ExampleNames) : ExampleNames[n] = "A"

\* C2: in ((A:0.1,B:0.2)node1:0.3,(C:0.4,D:0.5)node2:0.6)root; pruned of {B},
\* leaf A is still in the tree and its branch length is still 0.1.
C2_ExampleKeepsA ==
    ExamplePruned => ExampleA \in LeavesUnder(tree, t) /\ tree.dist[ExampleA] = 1

\* C3: after pruning a node with exactly one sibling, neither the node nor its
\* former parent is part of the tree, whether the node is a leaf or internal.
C3_NodeAndParentGone ==
    OneSister => last \notin NodesOf(tree, t) /\ LastParent \notin NodesOf(tree, t)

\* C4: pruning a node with two or more siblings only detaches it: the parent
\* stays where it was, its children are exactly the former siblings with their
\* branch lengths, and nothing of the pruned node's subtree is left in the tree.
C4_OnlyDetached ==
    ManySisters =>
        /\ tree.up[LastParent] = prev.T.up[LastParent]
        /\ (LastParent \in NodesOf(tree, t)) = (LastParent \in NodesOf(prev.T, prev.t))
        /\ tree.children[LastParent] = LastSisters
        /\ \A c \in Range(LastSisters) : tree.dist[c] = prev.T.dist[c]
        /\ NodesOf(prev.T, last) \cap NodesOf(tree, t) = {}

\* the text of a tree whose root carries no branch length
WriteBareRoot(T, nm, r) ==
    IF T.children[r] = <<>> THEN LeafName(nm, r) \o ";"
    ELSE "(" \o WriteChildren(T, nm, T.children[r], TRUE) \o ");"

\* C5: pruning a node with exactly one sibling whose parent is the root makes
\* the sibling the new root: the tree is exactly the sibling's subtree, the new
\* root has no parent and the written text has no branch length for it.
C5_SiblingBecomesRoot ==
    AtRoot =>
        LET sib == LastSisters[1] IN
        /\ t = sib
        /\ tree.up[sib] = None
        /\ SameSubtree(tree, prev.T, sib)
        /\ pc = "done" => out = WriteBareRoot(tree, name, t)

\* the part of C5 that does not concern the written text
C5_Structure ==
    AtRoot =>
        LET sib == LastSisters[1] IN
        /\ t = sib
        /\ tree.up[sib] = None
        /\ SameSubtree(tree, prev.T, sib)

NamedNodes == {n \in DOMAIN name : name[n] \in Range(order)}

\* C6: pruning with names none of which occurs in the tree is a no-op and not
\* an error: same nodes, same links, same leaf set, same total branch length,
\* and the run goes on to write the tree.
C6_AbsentNamesNoOp ==
    (order /= <<>> /\ NamedNodes = {}) =>
        /\ tree = tree0 /\ t = 1
        /\ LeavesUnder(tree, t) = LeavesUnder(tree0, 1)
        /\ TotalBranchLength(tree, t) = TotalBranchLength(tree0, 1)
        /\ pc = "done" => out = Write(tree0, name, 1)
        /\ pc /= "done" => ENABLED (SearchName \/ WriteTree)

C6_Witness ==
    /\ pc = "done" /\ Len(order) = 2 /\ NamedNodes = {}
    /\ Cardinality(LeavesUnder(tree, t)) >= 2

\* C7: a node without a parent is never pruned: when the only node carrying a
\* name of nodes_to_remove is the root, the whole tree is left unchanged.
C7_RootNeverPruned ==
    NamedNodes = {1} =>
        /\ tree = tree0 /\ t = 1
        /\ pc = "done" => out = Write(tree0, name, 1)

C7_Witness ==
    /\ pc = "done" /\ NamedNodes = {1} /\ last = 1
    /\ Len(tree.children[1]) = 2

RECURSIVE IterationOrders(_)
IterationOrders(S) ==
    IF S = {} THEN {<<>>}
    ELSE UNION {{<<x>> \o q : q \in IterationOrders(S \ {x})} : x \in S}

WriteResult(R, nm) == Write(R.T, nm, R.t)

\* C8: prune is deterministic for a given tree and set of names: whatever
\* order the set is iterated in, the tree written is the same.
C8_Deterministic ==
    pc = "done" =>
        \A o \in IterationOrders(Range(order)) :
            out = WriteResult(PruneNames([T |-> tree0, t |-> 1], name, o), name)

(***************************************************************************)
(* Claims about the WGD classifier.                                        *)
(***************************************************************************)
\* the leaves of the tree being classified that carry a name of S
Copies(S) == {l \in LeavesUnder(cur.T, 1) : cur.name[l] \in S}
Present(S) == {cur.name[l] : l \in Copies(S)}

\* some node has exactly the copies of S as its leaf set
Monophyletic(S) ==
    \E n \in NodesOf(cur.T, 1) : LeavesUnder(cur.T, n) = Copies(S)

Eligible == Cardinality(Present(A)) >= 2 /\ Cardinality(Present(B)) >= 2

Bump(c) == IF c THEN 1 ELSE 0

\* C9: for every tree with at least 2 members of A and at least 2 members of B
\* present, exactly one category counter is incremented: Independent iff both
\* sets of copies are monophyletic, Shared iff neither is, Uncertain iff
\* exactly one is.
C9_OneCategory ==
    [][(wpc = "classify" /\ Eligible) =>
        /\ total' = total + 1
        /\ independent' = independent + Bump(Monophyletic(A) /\ Monophyletic(B))
        /\ shared' = shared + Bump(~Monophyletic(A) /\ ~Monophyletic(B))
        /\ uncertain' = uncertain + Bump(Monophyletic(A) /= Monophyletic(B))
        /\ (independent' + shared' + uncertain') = (independent + shared + uncertain) + 1]_vars

C9_Witness ==
    /\ wpc = "tree" /\ total = 2
    /\ event = "Uncertain" /\ (independent = 1 \/ shared = 1)

\* C10: a tree with fewer than 2 members of A or fewer than 2 members of B
\* present changes neither Total nor any of the three category counters.
C10_SkipIncomplete ==
    [][(wpc = "classify" /\ ~Eligible) =>
        UNCHANGED <<total, independent, shared, uncertain>>]_vars

C10_Witness ==
    wpc = "tree" /\ event = "skipped" /\ total = 1

(***************************************************************************)
(* Claims about the WGT classifier and the monophyly verdict.              *)
(***************************************************************************)
\* the leaves of the tree the WGT classifier holds that carry a name of S
WgtCopies(S) == {l \in LeavesUnder(wgt.cur.T, 1) : wgt.cur.name[l] \in S}
WgtPresent(S) == {wgt.cur.name[l] : l \in WgtCopies(S)}

\* some node has exactly the leaves carrying a name of S as its leaf set
WgtMonophyletic(S) ==
    \E n \in NodesOf(wgt.cur.T, 1) : LeavesUnder(wgt.cur.T, n) = WgtCopies(S)

\* a species with at most one copy present is treated as monophyletic
WgtTreatedMono(S) == Cardinality(WgtPresent(S)) <= 1 \/ WgtMonophyletic(S)

\* C11: every tree that parses is counted and classified whatever copies it
\* holds: NonShared iff the present copies of A or those of B are
\* monophyletic, a species with at most one copy present being treated as
\* monophyletic, and Shared otherwise.
C11_ClassifyEveryTree ==
    [][wgt.pc = "classify" =>
        LET nonShared == WgtTreatedMono(WgtA) \/ WgtTreatedMono(WgtB) IN
        /\ wgt'.total = wgt.total + 1
        /\ wgt'.support_non_shared = wgt.support_non_shared + Bump(nonShared)
        /\ wgt'.support_shared = wgt.support_shared + Bump(~nonShared)
        /\ (Cardinality(WgtPresent(WgtA)) <= 1 \/ Cardinality(WgtPresent(WgtB)) <= 1)
               => wgt'.event = "NonShared"]_vars

\* a Shared tree has been counted and the tree now held has one copy of A and
\* copies of B that are not monophyletic
C11_Witness ==
    /\ wgt.pc = "classify" /\ wgt.support_shared = 1
    /\ Cardinality(WgtPresent(WgtA)) = 1
    /\ Cardinality(WgtPresent(WgtB)) >= 2 /\ ~WgtMonophyletic(WgtB)

\* C12: the monophyly verdict the classifier uses for a non-empty set of
\* names present in the tree equals the reference definition: the set is
\* monophyletic iff some node has exactly the leaves carrying those names as
\* its leaf set.
C12_VerdictIsReference ==
    wgt.pc = "classify" =>
        \A S \in {WgtA, WgtB} :
            WgtPresent(S) /= {} =>
                (WgtMono(wgt.cur.T, wgt.cur.name, 1, WgtPresent(S)).mono
                    <=> WgtMonophyletic(S))

(***************************************************************************)
(* Claims about the support/branch filter.                                 *)
(***************************************************************************)
\* no closing parenthesis of the line is followed by a label
NoAnnotations(line) ==
    \A i \in 1..Len(line) :
        line[i].k = ")" => At(line, i + 1).k \in {",", ")", ";"}

\* C13: a line is accepted iff the extracted supports and the extracted
\* branch lengths are both non-empty, every support is >= minSupport and
\* every branch length is >= minBranch; a line without internal annotations
\* is rejected.
C13_AcceptIff ==
    [][(sf.pc = "line" /\ sf'.pc = "loop") =>
        LET supports == ExtractSupports(sf.line).vals
            branches == ExtractBranchLengths(sf.line).vals
            accepted == sf'.fout = sf.fout + 1
        IN  /\ sf'.fout \in {sf.fout, sf.fout + 1}
            /\ sf'.n_passed = sf'.fout
            /\ accepted <=>
                  /\ supports /= <<>> /\ branches /= <<>>
                  /\ \A i \in 1..Len(supports) : supports[i] >= sf.threshold_support
                  /\ \A i \in 1..Len(branches) : branches[i] >= sf.threshold_branch
            /\ NoAnnotations(sf.line) => ~accepted]_vars

\* a line has been accepted, and the line now read is a tree with internal
\* nodes and no annotation
C13_Witness ==
    /\ sf.pc = "line" /\ sf.n_total = 2 /\ sf.n_passed = 1 /\ sf.fout = 1
    /\ NoAnnotations(sf.line)
    /\ \E i \in 1..Len(sf.line) : sf.line[i].k = ")"

\* the branch lengths of the internal nodes of the line: the number after the
\* colon of a label that follows a closing parenthesis
InternalBranches(line) ==
    {At(line, i + 2).v : i \in {j \in 1..Len(line) :
        /\ line[j].k = ")" /\ At(line, j + 1).k = ":"
        /\ At(line, j + 2).k = "num"}}
    \cup
    {At(line, i + 3).v : i \in {j \in 1..Len(line) :
        /\ line[j].k = ")" /\ At(line, j + 1).k \in {"num", "name", "bad"}
        /\ At(line, j + 2).k = ":" /\ At(line, j + 3).k = "num"}}

\* C14: an accepted line has every internal branch length >= minBranch,
\* whether or not the internal node carries a numeric support.
C14_AllInternalBranches ==
    [][(sf.pc = "line" /\ sf'.pc = "loop" /\ sf'.fout = sf.fout + 1) =>
        \A b \in InternalBranches(sf.line) : b >= sf.threshold_branch]_vars

(***************************************************************************)
(* Claims about the leaf-count filter.                                     *)
(***************************************************************************)
\* C15: a tree is accepted iff its number of leaves is >= the threshold; so
\* it is accepted at every lower threshold as well, and a tree of 4 leaves is
\* accepted at 4 and rejected at 5.
C15_LeafCount ==
    (lf.pc /= "off" /\ lf.event \in {"kept", "dropped"}) =>
        LET leaves == Cardinality(ShapeLeaves(lf.newick.p))
            kept(th) == Keeps(NumSpecies(lf.newick.p), th)
        IN  /\ lf.event = "kept" <=> leaves >= lf.threshold
            /\ lf.event = "kept" =>
                   lf.filtered_trees[Len(lf.filtered_trees)] = lf.newick
            /\ lf.event = "kept" => \A th \in 0..lf.threshold : kept(th)
            /\ leaves = 4 => (kept(4) /\ ~kept(5))

\* at threshold 4 a tree was dropped and then a tree of 4 leaves was kept
C15_Witness ==
    /\ lf.pc = "loop" /\ lf.threshold = 4 /\ lf.event = "kept" /\ lf.nread = 2
    /\ Cardinality(ShapeLeaves(lf.newick.p)) = 4
    /\ Len(lf.filtered_trees) = 1

(***************************************************************************)
(* Claims about the group-coverage filter.                                 *)
(***************************************************************************)
\* the groups with at least one member among the terminals of the tree
GroupsPresent ==
    {i \in 1..Len(gf.groups) : gf.groups[i] \cap gf.terminal_names /= {}}

\* C16: a tree is accepted iff the number of distinct groups with at least one
\* member among its leaves is >= the required count, for every mapping (the
\* empty one too) and every required count (0 and counts above the number of
\* groups too).
C16_GroupCoverage ==
    (gf.pc /= "off" /\ gf.event \in {"valid", "invalid"}) =>
        (gf.event = "valid" <=> Cardinality(GroupsPresent) >= gf.required_groups)

(***************************************************************************)
(* Claims about statements and lines that do not parse.                    *)
(***************************************************************************)
\* C17: in the WGD classifier, the WGT classifier and the leaf-count filter a
\* tree statement that fails to parse adds nothing to any counter or to the
\* output, and the loop over the statements goes on: the other statements of
\* the file and the later files are still processed.
C17_UnparsableSkipped ==
    [][/\ (wpc = "tree" /\ event' = "unparsed") =>
              /\ UNCHANGED <<total, independent, shared, uncertain, row>>
              /\ wpc' = "tree"
       /\ (wgt.pc = "tree" /\ wgt'.event = "unparsed") =>
              /\ wgt'.total = wgt.total
              /\ wgt'.support_shared = wgt.support_shared
              /\ wgt'.support_non_shared = wgt.support_non_shared
              /\ wgt'.row = wgt.row
              /\ wgt'.pc = "tree"
       /\ (lf.pc = "loop" /\ lf'.event = "unparsed") =>
              /\ lf'.filtered_trees = lf.filtered_trees
              /\ lf'.outfile = lf.outfile
              /\ lf'.pc = "loop"]_vars

\* a statement of the file did not parse (WGT) and a tree of the same file is
\* counted
C17_Witness ==
    /\ wgt.pc = "tree" /\ wgt.event = "unparsed"
    /\ wgt.total = 1 /\ wgt.support_shared = 1

\* the pruned text of the lines of ls that parse, in order
RECURSIVE PrunedGoodLines(_)
PrunedGoodLines(ls) ==
    IF ls = <<>> THEN <<>>
    ELSE (IF Head(ls).ok THEN <<PruneLine(Head(ls))>> ELSE <<>>)
             \o PrunedGoodLines(Tail(ls))

\* C18: a line of the prune tool's input that cannot be parsed does not block
\* the other trees of the file: when the run has ended, the output file holds
\* the pruned text of every line that parses.
C18_BadLineDoesNotBlock ==
    (pf.pc \in {"written", "aborted"}) =>
        pf.outfile = PrunedGoodLines(pf.tree_strings)

\* C19: the summary gives the number of trees attempted as well as the number
\* that passed, so that the number of trees skipped can be derived from it:
\* for the per-file row of the WGD summary, every tree statement attempted,
\* skipped ones too, changes a counter the row is written from.
C19_SkipsObservable ==
    [][((wpc = "tree" /\ event' = "unparsed") \/ wpc = "classify") =>
        <<total, independent, shared, uncertain>>'
            /= <<total, independent, shared, uncertain>>]_vars

(***************************************************************************)
(* Claims about the splitting of a text into tree statements.              *)
(***************************************************************************)
\* the positions of the ";" of the text, with 0 before them and the position
\* after the end of the text behind them
Cuts(text) ==
    {0, Len(text) + 1} \cup {i \in 1..Len(text) : text[i] = ";"}

\* the segments of the text between two consecutive cuts, as pairs of cuts
SegmentsOf(text) ==
    {c \in Cuts(text) \X Cuts(text) :
        /\ c[1] < c[2]
        /\ \A k \in Cuts(text) : ~(c[1] < k /\ k < c[2])}

IsBlank(s) == \A i \in 1..Len(s) : IsSpace(s[i])

\* the segments that are not blank, in the order of the text
NonBlankSegments(text) ==
    LET segs == {c \in SegmentsOf(text) :
                    ~IsBlank(SubSeq(text, c[1] + 1, c[2] - 1))}
        nth(c) == Cardinality({d \in segs : d[1] < c[1]}) + 1
    IN  [j \in 1..Cardinality(segs) |->
            LET c == CHOOSE d \in segs : nth(d) = j
            IN  SubSeq(text, c[1] + 1, c[2] - 1)]

\* C20: splitting a text yields, in the order of the text, one statement per
\* non-blank segment between ";" characters; every statement ends with ";"
\* and holds no other ";"; a text without the last ";" yields the statements
\* of the text with it; an empty or blank text yields no statement.
C20_Split ==
    sp.pc = "split" =>
        LET segs == NonBlankSegments(sp.text) IN
        /\ Len(sp.trees) = Len(segs)
        /\ \A j \in 1..Len(segs) :
               LET st == sp.trees[j] IN
               /\ st = Append(Strip(segs[j]), ";")
               /\ st[Len(st)] = ";"
               /\ \A i \in 1..(Len(st) - 1) : st[i] /= ";"
        /\ SplitTrees(Append(sp.text, ";")) = sp.trees
        /\ IsBlank(sp.text) => sp.trees = <<>>

\* a text of two statements with a blank segment between them, the last one
\* without its ";"
C20_Witness ==
    /\ sp.pc = "split" /\ Len(sp.trees) = 2
    /\ sp.text[Len(sp.text)] /= ";"
    /\ Cardinality(SegmentsOf(sp.text)) = 3
    /\ sp.trees[1] /= sp.trees[2]

(***************************************************************************)
(* Claims about the output of the line filters.                            *)
(***************************************************************************)
\* whether the filter holding the file accepts the line
FfAccepts(raw) ==
    IF ff.tool = "support"
    THEN /\ raw.body /= <<>>
         /\ LET supports == ExtractSupports(raw.body).vals
                branches == ExtractBranchLengths(raw.body).vals
            IN  /\ supports /= <<>> /\ branches /= <<>>
                /\ \A k \in 1..Len(supports) : supports[k] >= ff.threshold_support
                /\ \A k \in 1..Len(branches) : branches[k] >= ff.threshold_branch
    ELSE /\ raw.body /= <<>> /\ raw.body.ok
         /\ Cardinality(ShapeLeaves(raw.body.p)) >= ff.threshold

\* the accepted lines among the first n lines of the file, in the order of
\* the file, each without its surrounding white space
FfAcceptedOf(n) ==
    LET kept == SelectSeq(SubSeq(ff.fin, 1, n), FfAccepts)
    IN  [k \in 1..Len(kept) |-> StripLine(kept[k])]

\* C21: the leaf-count filter and the support/branch filter write exactly the
\* accepted lines of the input, in the order of the input, each unchanged
\* apart from surrounding white space and each once: at every point the lines
\* kept are the accepted ones among the lines read, and the output of a run
\* that reaches the end of the input is that of the whole file.
C21_OutputIsAcceptedLines ==
    ff.pc /= "off" =>
        /\ ff.tool = "support" =>
               /\ ff.fout = FfAcceptedOf(ff.i)
               /\ ff.pc = "done" => ff.fout = FfAcceptedOf(Len(ff.fin))
        /\ ff.tool = "species" =>
               /\ ff.filtered_trees = FfAcceptedOf(ff.i)
               /\ ff.outfile = IF ff.pc = "done" THEN FfAcceptedOf(Len(ff.fin))
                               ELSE <<>>

\* the support filter has ended on a file of three lines: an accepted line
\* with white space around it, a rejected line, and an accepted line
C21_Witness ==
    /\ ff.pc = "done" /\ ff.tool = "support" /\ Len(ff.fin) = 3
    /\ ff.fin[1].pad /\ FfAccepts(ff.fin[1]) /\ ~FfAccepts(ff.fin[2])
    /\ ff.fin[2].body /= <<>> /\ FfAccepts(ff.fin[3])
    /\ ff.fin[1].body /= ff.fin[3].body
    /\ ff.fout = <<StripLine(ff.fin[1]), ff.fin[3]>>

(***************************************************************************)
(* Claims about the Newick codec.                                          *)
(***************************************************************************)
\* the names of the leaves of a parsed tree
ParsedLeafNames(T) == {T.name[n] : n \in {m \in 1..Len(T.up) : T.children[m] = <<>>}}

\* C22: parsing a statement and writing the tree, no node pruned, gives a
\* text that parses to the same topology (same parents, same children in the
\* same order) and the same set of leaf names as the statement.
C22_RoundTrip ==
    cd.pc = "written" =>
        LET again == ParseTokens(cd.cleaned)
        IN  /\ again.up = cd.t.up
            /\ again.children = cd.t.children
            /\ ParsedLeafNames(again) = ParsedLeafNames(cd.t)

\* C23: the text the prune tool writes holds the name of every named node of
\* the tree, internal nodes as well as leaves, each node below the root with
\* its branch length after its name, and no support value.
C23_NamesAndLengthsWritten ==
    pc = "done" =>
        LET toks == WriteTokens(tree, name, t)
        IN  /\ out = TextOf(toks)
            /\ \A n \in NodesOf(tree, t) :
                   name[n] /= "" =>
                       \E i \in 1..Len(toks) :
                           /\ toks[i] = Tok("name", name[n])
                           /\ n /= t => /\ At(toks, i + 1).k = ":"
                                        /\ At(toks, i + 2) = Tok("num", tree.dist[n])
            /\ \A i \in 1..Len(toks) : toks[i].k = ")" => At(toks, i + 1).k /= "num"

(***************************************************************************)
(* Claims about the order of the children of a node.                       *)
(***************************************************************************)
\* the tree T with the k-th and the (k+1)-th child of node n exchanged
SwapChildren(T, n, k) ==
    [T EXCEPT !.children[n] =
        [j \in 1..Len(@) |-> IF j = k THEN @[k + 1] ELSE IF j = k + 1 THEN @[k] ELSE @[j]]]

\* the places of T where two children can be exchanged
Swaps(T) ==
    {sw \in (1..Len(T.up)) \X (1..Len(T.up)) : sw[2] < Len(T.children[sw[1]])}

\* R1 and R2 are the same tree when the order of children is not looked at:
\* same root, same nodes, each with the same parent, the same branch length
\* and the same children
SameUnordered(R1, R2) ==
    /\ R1.t = R2.t
    /\ NodesOf(R1.T, R1.t) = NodesOf(R2.T, R2.t)
    /\ \A n \in NodesOf(R1.T, R1.t) :
           /\ Range(R1.T.children[n]) = Range(R2.T.children[n])
           /\ Len(R1.T.children[n]) = Len(R2.T.children[n])
           /\ R1.T.dist[n] = R2.T.dist[n]
           /\ n /= R1.t => R1.T.up[n] = R2.T.up[n]

\* C24: exchanging children of a node of the input tree changes neither the
\* monophyly verdict of a set of names present in the tree (so not the
\* category either) nor, the order of children apart, the tree prune gives.
C24_ChildOrderIrrelevant ==
    /\ pc = "done" =>
           \A sw \in Swaps(tree0) :
               SameUnordered(
                   PruneNames([T |-> SwapChildren(tree0, sw[1], sw[2]), t |-> 1],
                              name, order),
                   [T |-> tree, t |-> t])
    /\ wpc = "classify" =>
           \A sw \in Swaps(cur.T) : \A S \in {Present(A), Present(B)} :
               S /= {} =>
                   CheckMonophyly(SwapChildren(cur.T, sw[1], sw[2]), cur.name, 1, S)
                       = CheckMonophyly(cur.T, cur.name, 1, S)

(***************************************************************************)
(* Claims about the tree the prune loop holds.                             *)
(***************************************************************************)
\* The tree under r is well formed: r has no parent, and every other node of
\* it has one parent, which is a node of the tree, lists it once among its
\* children and is the only node of the tree that lists it.  The traversal
\* from r lists r and then the children of every node it meets: it holds no
\* node twice exactly when no node is listed twice, or by two nodes, and r is
\* listed by none.
WellFormed(T, r) ==
    \A visited \in {LevelOrder(T, <<r>>)} : \A here \in {Range(visited)} :
        /\ T.up[r] = None
        /\ Len(visited) = Cardinality(here)
        /\ \A m \in here : \A j \in 1..Len(T.children[m]) :
               T.up[T.children[m][j]] = m

\* C25: pruning preserves well-formedness: after every step of the prune
\* loop, whatever the steps before it, the tree held in t is well formed.
C25_WellFormed == [][WellFormed(tree', t')]_vars

\* two names have been pruned, the last step re-attached a sibling to its
\* grandparent, and the tree is not the one parsed
C25_Witness ==
    /\ pc = "done" /\ Len(order) = 2 /\ WithGrandparent
    /\ tree /= tree0 /\ Cardinality(NodesOf(tree, t)) >= 3
    /\ WellFormed(tree0, 1)

\* C26: pruning never turns an internal node into a leaf: after any sequence
\* of prune steps every childless node of the tree held in t was a leaf of
\* the input tree and carries its name, for every input tree, trees with
\* single-child nodes too.
C26_LeavesWereLeaves ==
    pc \in {"names", "nodes", "done"} =>
        \A n \in LeavesUnder(tree, t) :
            n \in LeavesUnder(tree0, 1) /\ name[n] /= ""

\* the nodes of the input tree from n up to its root
Ancestors0(n) == Range(PathToRoot(tree0, n))

\* the leaves of the input tree that neither carry a name of nodes_to_remove
\* nor lie beneath a node that carries one
UntargetedLeaves ==
    {l \in LeavesUnder(tree0, 1) : \A a \in Ancestors0(l) : name[a] \notin Range(order)}

\* C27: pruning never loses an untargeted leaf: every leaf of the input tree
\* that neither carries a name of nodes_to_remove nor lies beneath a node that
\* carries one is a leaf of the tree held in t, whatever the tree (nodes may
\* share a name) and the order in which the names are processed.
C27_UntargetedLeavesKept ==
    pc \in {"names", "nodes", "done"} => UntargetedLeaves \subseteq LeavesUnder(tree, t)

\* C28: after prune completes for the names of nodes_to_remove, no node of
\* the resulting tree other than its root carries one of them.
C28_NoTargetLeft ==
    pc = "done" =>
        \A n \in NodesOf(tree, t) \ {t} : name[n] \notin Range(order)

\* both names of nodes_to_remove were carried by nodes below the root that
\* prune removed, the root was replaced, and the pruned tree still has three
\* nodes or more
C28_Witness ==
    /\ pc = "done" /\ Len(order) = 2
    /\ \A a \in Range(order) :
           \E n \in DOMAIN name \ NodesOf(tree, t) : n /= 1 /\ name[n] = a
    /\ Cardinality(NodesOf(tree, t)) >= 3
    /\ t /= 1

\* C29: prune is idempotent: pruning the tree that prune left, again with the
\* same names taken in the same order, leaves that tree unchanged.
C29_Idempotent ==
    pc = "done" =>
        PruneNames([T |-> tree, t |-> t], name, order) = [T |-> tree, t |-> t]

\* two names were given, a node carrying the second one was removed, and the
\* result holds a node that carries one of them: its root
C29_Witness ==
    /\ pc = "done" /\ Len(order) = 2
    /\ \E n \in DOMAIN name \ NodesOf(tree, t) : name[n] = order[2]
    /\ name[t] \in Range(order)
    /\ Cardinality(NodesOf(tree, t)) >= 2 /\ tree /= tree0

(***************************************************************************)
(* Claims about the counters of the classifiers.                           *)
(***************************************************************************)
\* C30: the category counters of a file partition its total, between any two
\* tree statements and in the row written for the file: Total = Independent +
\* Shared + Uncertain in the WGD classifier, Total_Trees = NonShared_Count +
\* Shared_Count in the WGT classifier; the counters are all zero when a file
\* is opened, and the row of a file is made of the counters of that file.
C30_CountersPartition ==
    /\ wpc /= "off" =>
           /\ total = independent + shared + uncertain
           /\ event = "open" =>
                  total = 0 /\ independent = 0 /\ shared = 0 /\ uncertain = 0
           /\ row /= <<>> =>
                  /\ row.total = row.independent + row.shared + row.uncertain
                  /\ row.total > 0
           /\ (event = "closed" /\ total > 0) =>
                  /\ row /= <<>>
                  /\ <<row.total, row.independent, row.shared, row.uncertain>>
                         = <<total, independent, shared, uncertain>>
    /\ wgt.pc /= "off" =>
           /\ wgt.total = wgt.support_non_shared + wgt.support_shared
           /\ wgt.event = "open" =>
                  wgt.total = 0 /\ wgt.support_non_shared = 0 /\ wgt.support_shared = 0
           /\ wgt.row /= <<>> =>
                  wgt.row.total = wgt.row.support_non_shared + wgt.row.support_shared
           /\ wgt.event = "closed" =>
                  /\ wgt.row /= <<>>
                  /\ <<wgt.row.total, wgt.row.support_non_shared, wgt.row.support_shared>>
                         = <<wgt.total, wgt.support_non_shared, wgt.support_shared>>

\* the row of a file of the WGD classifier with two trees counted, one of
\* them Shared and the other Uncertain
C30_Witness ==
    /\ wpc = "file" /\ event = "closed" /\ row /= <<>>
    /\ row.total = 2 /\ row.shared = 1 /\ row.uncertain = 1

====
